---- MODULE Spec2Model ----
(***************************************************************************)
(* Countdown numbers game (src/Exam.py).                                   *)
(*                                                                         *)
(* CountingStrategy and CountingStrategyResilient each state an integer    *)
(* optimisation problem over the variables id_i, step_done_i, op_i, res_i  *)
(* (and last_op, att_dist_a, worst_dist) and ask the optimiser for one     *)
(* model that minimises the objectives in the order they were given.       *)
(* The state of this module is the input of one call and the model the     *)
(* call obtains from opt.model().  The optimiser may return any model      *)
(* that attains the optimal objective values, so each call is one action   *)
(* that chooses among all of them.                                         *)
(*                                                                         *)
(* ids and ops are recorded for the executed steps only: for a step that   *)
(* is not executed the constraints bound id_i and op_i to their domains    *)
(* (lines 34-38) and nothing else depends on them, and the report loop     *)
(* stops at the first step that is not executed (lines 72-78).             *)
(***************************************************************************)
EXTENDS Integers, Sequences, FiniteSets

VARIABLES
    numbers,     \* the pool handed to the call (a sequence, 1-indexed here)
    target,      \* the target handed to the call
    pc,          \* "call", "solved" (CountingStrategy returned), "resilient"
    ids,         \* ids[i]: pool index used by executed step i
    steps,       \* steps[i]: step i is executed
    ops,         \* ops[k]: operator of executed step k (op_k, Python ops[k-1])
    vals,        \* vals[i]: partial result after step i
    last_op,     \* resilient: index of the last executed step
    att_dists,   \* resilient: att_dists[a] = att_dist_a
    worst_dist   \* resilient: worst_dist

vars == <<numbers, target, pc, ids, steps, ops, vals, last_op, att_dists, worst_dist>>

-----------------------------------------------------------------------------
(* Program constants *)

NumSteps == 6        \* range(6): steps 0..5
NumOps == 4          \* operators 0..3
DivOp == 3           \* OPERATION_IDS[3] = '/'
MaxAttack == 10      \* range(1, 11)
Illegal == 0 - 1     \* att_dist of an illegal attack

Steps == 0 .. (NumSteps - 1)
OpSteps == 1 .. (NumSteps - 1)
Operators == 0 .. (NumOps - 1)
\* Faulty variant of Attacks: range(2, 11)
Attacks_FromTwo == 2 .. MaxAttack
Attacks == 1 .. MaxAttack

-----------------------------------------------------------------------------
(* Inputs explored *)

MaxInstance == 8

\* Calls explored.  Entries 7 and 8 hand over a pool that does not have six
\* entries.
InstanceList ==
    << [numbers |-> <<1, 3, 5, 8, 10, 50>>,       target |-> 462],
       [numbers |-> <<0, 3, 4, 0 - 5, 6, 7>>,     target |-> 0],
       [numbers |-> <<0, 1, 2, 3, 4, 5>>,         target |-> 190],
       [numbers |-> <<2, 3, 5, 7, 11, 13>>,       target |-> 11],
       [numbers |-> <<0, 3, 4, 0 - 5, 6, 7>>,     target |-> 250],
       [numbers |-> <<0, 3, 4, 0 - 5, 6, 7>>,     target |-> 0 - 299],
       [numbers |-> <<2, 3, 5, 7, 11, 13, 17>>,   target |-> 120],
       [numbers |-> <<1, 3, 5, 8, 10>>,           target |-> 462],
       [numbers |-> <<1, 11, 0, 0 - 3, 25, 4>>,   target |-> 11] >>

Instances == { InstanceList[i] : i \in 1 .. MaxInstance }

-----------------------------------------------------------------------------
(* Integer terms of the encoding *)

\* arr = K(IntSort(), 0), then Store(arr, i, v) for each pool entry
arr(i) == IF i >= 0 /\ i < Len(numbers) THEN numbers[i + 1] ELSE 0

Abs(x) == IF x > 0 THEN x ELSE 0 - x

\* x % y and x / y of the solver's integers, y # 0:
\* x = y * (x / y) + (x % y) with 0 <= x % y < |y|
IntMod(x, y) == x % Abs(y)
IntDiv(x, y) == IF y > 0 THEN x \div y ELSE 0 - (x \div (0 - y))

\* Faulty variant of apply: the division case without the divisibility test
apply_Unchecked(op_now, val_now, val_next, step, n_used) ==
    IF step
    THEN IF op_now = 0 THEN val_next = val_now + n_used
         ELSE IF op_now = 1 THEN val_next = val_now - n_used
         ELSE IF op_now = 2 THEN val_next = val_now * n_used
         ELSE /\ n_used # 0
              /\ val_next = IntDiv(val_now, n_used)
    ELSE val_next = val_now

\* The constraint apply(...) places on val_next
apply(op_now, val_now, val_next, step, n_used) ==
    IF step
    THEN IF op_now = 0 THEN val_next = val_now + n_used
         ELSE IF op_now = 1 THEN val_next = val_now - n_used
         ELSE IF op_now = 2 THEN val_next = val_now * n_used
         ELSE /\ n_used # 0
              /\ IntMod(val_now, n_used) = 0
              /\ val_next = IntDiv(val_now, n_used)
    ELSE val_next = val_now

\* The values val_next can take under apply(op, val_now, _, TRUE, n_used)
\* for some operator: each branch of apply fixes val_next to one term.
Terms(val_now, n_used) ==
    {val_now + n_used, val_now - n_used, val_now * n_used}
        \cup (IF n_used # 0 THEN {IntDiv(val_now, n_used)} ELSE {})

Applied(op_now, val_now, n_used) ==
    {w \in Terms(val_now, n_used) : apply(op_now, val_now, w, TRUE, n_used)}

\* Faulty variant of DistinctIds: >= written for !=
DistinctIds_Geq(id_i, id_j) == id_i >= id_j

\* c2 of the uniqueness constraint: the ids of two executed steps differ
DistinctIds(id_i, id_j) == id_i # id_j

\* The ids an executed step may take after executed steps that took `used`
NextIds(used) == {j \in Steps : \A i \in used : DistinctIds(i, j)}

-----------------------------------------------------------------------------
(* The feasible region of the shared constraints (lines 33-60, 125-151)    *)
(*                                                                         *)
(* A model with k executed steps is fixed by ids[0..k-1] and ops[1..k-1]:  *)
(* steps is the prefix 0..k-1 (Implies(steps[i], steps[i-1]) and           *)
(* steps[0] == True), and the transition constraints fix every vals[i].    *)
(* Reach(k)[S] is the set of values vals[k-1] can take in a model whose    *)
(* first k steps are executed and use exactly the ids in S.                *)

IdSets == SUBSET Steps

\* vals[0] == Select(arr, ids[0]), 0 <= ids[0] < 6
First == [S \in IdSets |-> {arr(i) : i \in {i \in Steps : S = {i}}}]

\* The ways to reach id set S by one more executed step: <<ids before, id>>
Before(S) ==
    {p \in UNION { {<<S \ {j}, j>>, <<S, j>>} : j \in S } : p[2] \in NextIds(p[1])}

\* One more executed step: If(steps[k], apply(ops[k-1], vals[k-1], vals[k],
\* True, Select(arr, ids[k])), ...), 0 <= ops[k-1] < 4
More(prev) ==
    [S \in IdSets |->
        UNION { UNION { UNION { Applied(op, v, arr(p[2])) : op \in Operators }
                        : v \in prev[p[1]] }
                : p \in Before(S) }]

RECURSIVE ReachUpTo(_)
ReachUpTo(k) ==
    IF k = 1 THEN <<First>>
    ELSE LET t == ReachUpTo(k - 1) IN Append(t, More(t[k - 1]))

\* Reach[k][S], k in 1..NumSteps
Reach == ReachUpTo(NumSteps)

\* The executed prefixes (ids, ops and partial results as sequences, step i
\* at position i + 1) of the models whose first k steps are executed, use
\* exactly the ids in S and end in vals[k-1] = v
RECURSIVE Prefixes(_, _, _, _)
Prefixes(t, k, S, v) ==
    IF k = 1
    THEN {[ids |-> <<i>>, ops |-> <<>>, vals |-> <<v>>]
            : i \in {i \in Steps : S = {i} /\ arr(i) = v}}
    ELSE UNION { UNION { UNION {
            {[ids |-> Append(q.ids, p[2]),
              ops |-> Append(q.ops, op),
              vals |-> Append(q.vals, v)] : q \in Prefixes(t, k - 1, p[1], u)}
            : op \in {op \in Operators : apply(op, u, v, TRUE, arr(p[2]))} }
            : u \in t[k - 1][p[1]] }
            : p \in Before(S) }

\* The model with the executed prefix q: the steps after it are skipped,
\* vals[k] == vals[k-1]
ModelOf(q) ==
    LET k == Len(q.ids) IN
    [ids   |-> [i \in 0 .. (k - 1) |-> q.ids[i + 1]],
     steps |-> [i \in Steps |-> i < k],
     ops   |-> [j \in 1 .. (k - 1) |-> q.ops[j]],
     vals  |-> [i \in Steps |-> IF i < k THEN q.vals[i + 1] ELSE q.vals[k]]]

\* The constraints both functions add, read on a model m
Constraints(m) ==
    /\ m.vals[0] = arr(m.ids[0])
    /\ \A i \in DOMAIN m.ids : m.ids[i] >= 0 /\ m.ids[i] < NumSteps
    /\ \A k \in DOMAIN m.ops : m.ops[k] >= 0 /\ m.ops[k] < NumOps
    /\ \A i \in OpSteps : m.steps[i] => m.steps[i - 1]
    /\ \A i \in Steps : \A j \in (i + 1) .. (NumSteps - 1) :
          (m.steps[i] /\ m.steps[j]) => DistinctIds(m.ids[i], m.ids[j])
    /\ \A k \in OpSteps :
          IF m.steps[k]
          THEN apply(m.ops[k], m.vals[k - 1], m.vals[k], TRUE, arr(m.ids[k]))
          ELSE m.vals[k] = m.vals[k - 1]
    /\ m.steps[0] = TRUE

-----------------------------------------------------------------------------
(* Objectives of CountingStrategy (lines 62-66) *)

\* used_count = Sum([If(steps[k], 1, 0) for k in range(6)])
used_count(st) == Cardinality({k \in Steps : st[k]})

\* Faulty variant of Distance: the distance taken without Abs
Distance_Signed(v) == target - v

\* Abs(target - v), the distance of a final value v
Distance(v) == Abs(target - v)

\* dist_to_target = Abs(target - vals[5])
dist_to_target(vs) == Distance(vs[NumSteps - 1])

\* the second objective, If(dist == 0, used_count, 0)
CountObjective(dist, used) == IF dist = 0 THEN used ELSE 0

Minimum(D) == CHOOSE x \in D : \A y \in D : x <= y

\* Faulty variant of LexMin: the two objectives given in the other order
LexMin_Swapped(P) ==
    LET b == Minimum({p[2] : p \in P})
    IN  <<Minimum({p[1] : p \in {p \in P : p[2] = b}}), b>>

\* opt.minimize(a); opt.minimize(b): the least a, then the least b under it.
\* P is a set of <<a, b>> pairs.
LexMin(P) ==
    LET a == Minimum({p[1] : p \in P})
    IN  <<a, Minimum({p[2] : p \in {p \in P : p[1] = a}})>>

\* <<k, S, v>>: k executed steps using the ids S end in vals[5] = v
SolveEnds(t) ==
    UNION { UNION { {<<k, S, v>> : v \in t[k][S]} : S \in IdSets }
            : k \in 1 .. NumSteps }

SolveObjective(e) == <<Distance(e[3]), CountObjective(Distance(e[3]), e[1])>>

\* The models opt.model() can return in CountingStrategy
SolveModels ==
    LET t    == Reach
        E    == SolveEnds(t)
        best == LexMin({SolveObjective(e) : e \in E})
    IN  {m \in UNION { {ModelOf(q) : q \in Prefixes(t, e[1], e[2], e[3])}
                        : e \in {e \in E : SolveObjective(e) = best} }
            : /\ Constraints(m)
              /\ <<dist_to_target(m.vals),
                   CountObjective(dist_to_target(m.vals), used_count(m.steps))>> = best}

-----------------------------------------------------------------------------
(* The adversary of CountingStrategyResilient (lines 153-194) *)

\* Faulty variant of tail: the next step is not looked at
tail_Dropped(st, k) == TRUE

\* tail = BoolVal(True) if k == 5 else Not(steps[k+1])
tail(st, k) == IF k = NumSteps - 1 THEN TRUE ELSE ~st[k + 1]

\* Or(cases), cases[k] = And(last_op == k, steps[k], tail), and
\* And(last_op >= 1, last_op <= 5): the values left to last_op
LastOps(st) ==
    {L \in 0 .. NumSteps :
        /\ \E k \in OpSteps : L = k /\ st[k] /\ tail(st, k)
        /\ L >= 1 /\ L <= NumSteps - 1}

\* Select(vals_arr, i): vals_arr = K(IntSort(), 0) with vals[0..5] stored
vals_arr(vs, i) == IF i \in Steps THEN vs[i] ELSE 0

\* Select(ops_arr, i): ops_arr = K(IntSort(), 0) with Python ops[0..4]
\* stored, ops[i] being the operator op_(i+1) of step i + 1
ops_arr(os, i) == IF (i + 1) \in DOMAIN os THEN os[i + 1] ELSE 0

\* Faulty variant of legal_attack: every attack on a division is illegal
legal_attack_NoDivision(last_op_code, pre_last_val, attack) ==
    last_op_code # DivOp

\* legal_attack = Or(last_op_code != 3, pre_last_val % attack == 0)
legal_attack(last_op_code, pre_last_val, attack) ==
    last_op_code # DivOp \/ IntMod(pre_last_val, attack) = 0

\* The values left to att_res_a by
\* Implies(legal_attack, apply(last_op_code, pre_last_val, result, True, a)),
\* for a legal attack
att_results(last_op_code, pre_last_val, attack) ==
    Applied(last_op_code, pre_last_val, attack)

\* Faulty variant of att_dist: the distance taken without Abs
att_dist_Signed(last_op_code, pre_last_val, attack, result) ==
    IF legal_attack(last_op_code, pre_last_val, attack)
    THEN target - result
    ELSE Illegal

\* dist_a == If(legal_attack, Abs(target - result), -1), result being the
\* value of att_res_a
att_dist(last_op_code, pre_last_val, attack, result) ==
    IF legal_attack(last_op_code, pre_last_val, attack)
    THEN Abs(target - result)
    ELSE Illegal

\* The functions a |-> att_dist_a the attack constraints allow
AttDists(last_op_code, pre_last_val) ==
    IF \E a \in Attacks : /\ legal_attack(last_op_code, pre_last_val, a)
                          /\ att_results(last_op_code, pre_last_val, a) = {}
    THEN {}
    ELSE { [a \in Attacks |->
              att_dist(last_op_code, pre_last_val, a,
                       IF legal_attack(last_op_code, pre_last_val, a)
                       THEN CHOOSE r \in att_results(last_op_code, pre_last_val, a) : TRUE
                       ELSE 0)] }

\* Faulty variant of WorstBounds: the lower bounds on worst_dist left out
WorstBounds_Dropped(w, d) == TRUE

\* for d, _ in att_dists: opt.add(worst_dist >= d)
WorstBounds(w, d) == \A a \in Attacks : w >= d[a]

\* opt.add(Or([And(legal, worst_dist == d) for d, legal in att_dists]))
WorstAttained(w, d, last_op_code, pre_last_val) ==
    \E a \in Attacks : legal_attack(last_op_code, pre_last_val, a) /\ w = d[a]

\* The values left to worst_dist
WorstDists(d, last_op_code, pre_last_val) ==
    {w \in {d[a] : a \in Attacks} :
        WorstBounds(w, d) /\ WorstAttained(w, d, last_op_code, pre_last_val)}

\* <<worst_dist, att_dists>> for a last step with operator op on value u
Adversary(op, u) ==
    UNION { {<<w, d>> : w \in WorstDists(d, op, u)} : d \in AttDists(op, u) }

\* <<k, u, op>>: some model has k >= 2 executed steps, vals[k-2] = u and
\* operator op on step k - 1
ResilientEnds(t) ==
    UNION { UNION { UNION {
        {<<k, u, op>> : op \in {op \in Operators :
                \E j \in NextIds(S) : Applied(op, u, arr(j)) # {}}}
        : u \in t[k - 1][S] } : S \in IdSets } : k \in 2 .. NumSteps }

\* worst_dist, then If(worst_dist == 0, used_count, 0)
ResilientObjective(w, used) == <<w, CountObjective(w, used)>>

EndObjectives(e) == {ResilientObjective(a[1], e[1]) : a \in Adversary(e[3], e[2])}

\* The executed prefixes of the models with k executed steps, vals[k-2] = u
\* and operator op on step k - 1
EndPrefixes(t, e) ==
    LET k == e[1] u == e[2] op == e[3] IN
    UNION { UNION { UNION {
        {[ids |-> Append(q.ids, j), ops |-> Append(q.ops, op),
          vals |-> Append(q.vals, w)] : q \in Prefixes(t, k - 1, S, u)}
        : w \in Applied(op, u, arr(j)) } : j \in NextIds(S) }
        : S \in {S \in IdSets : u \in t[k - 1][S]} }

\* The models opt.model() can return in CountingStrategyResilient, each
\* with its last_op, att_dists and worst_dist
ResilientModels ==
    LET t    == Reach
        E    == ResilientEnds(t)
        best == LexMin(UNION {EndObjectives(e) : e \in E})
    IN  UNION { UNION { UNION {
            {[m |-> m, last_op |-> L, att_dists |-> a[2], worst_dist |-> a[1]]
                : a \in {a \in Adversary(ops_arr(m.ops, L - 1), vals_arr(m.vals, L - 1)) :
                            ResilientObjective(a[1], used_count(m.steps)) = best}}
            : L \in LastOps(m.steps) }
            : m \in {m \in {ModelOf(q) : q \in EndPrefixes(t, e)} :
                        Constraints(m) /\ m.steps[1] = TRUE} }
            : e \in {e \in E : best \in EndObjectives(e)} }

-----------------------------------------------------------------------------

NoModel == <<>>

Init ==
    /\ \E c \in Instances : numbers = c.numbers /\ target = c.target
    /\ pc = "call"
    /\ ids = NoModel /\ steps = NoModel /\ ops = NoModel /\ vals = NoModel
    /\ last_op = 0 /\ att_dists = NoModel /\ worst_dist = 0

\* CountingStrategy(numbers, target): opt.check() is sat and m = opt.model()
CountingStrategy ==
    /\ pc = "call"
    /\ \E m \in SolveModels :
          /\ ids' = m.ids /\ steps' = m.steps /\ ops' = m.ops /\ vals' = m.vals
    /\ pc' = "solved"
    /\ UNCHANGED <<numbers, target, last_op, att_dists, worst_dist>>

\* CountingStrategyResilient(numbers, target)
CountingStrategyResilient ==
    /\ pc = "call"
    /\ \E r \in ResilientModels :
          /\ ids' = r.m.ids /\ steps' = r.m.steps /\ ops' = r.m.ops /\ vals' = r.m.vals
          /\ last_op' = r.last_op
          /\ att_dists' = r.att_dists
          /\ worst_dist' = r.worst_dist
    /\ pc' = "resilient"
    /\ UNCHANGED <<numbers, target>>

Next == CountingStrategy \/ CountingStrategyResilient

Spec == Init /\ [][Next]_vars

-----------------------------------------------------------------------------
(* The rules of the game, stated without the encoding.  The properties     *)
(* below measure the returned model against these.                         *)

SixPool == Len(numbers) = NumSteps

Pool(i) == numbers[i + 1]

Divides(n, v) == n # 0 /\ Abs(v) % Abs(n) = 0

Quotient(v, n) ==
    IF (v >= 0) = (n > 0) THEN Abs(v) \div Abs(n) ELSE 0 - (Abs(v) \div Abs(n))

\* The result of operator op on value v with operand n; division is taken
\* only where it is exact
Play(op, v, n) ==
    IF op = 0 THEN v + n
    ELSE IF op = 1 THEN v - n
    ELSE IF op = 2 THEN v * n
    ELSE Quotient(v, n)

Playable(op, v, n) == op # DivOp \/ Divides(n, v)

\* GameReach(k)[S]: the final values of the valid sequences of k executed
\* steps (step 0 included) that use exactly the pool positions in S, each
\* once
GameFirst == [S \in IdSets |-> {Pool(i) : i \in {i \in Steps : S = {i}}}]

GameMore(prev) ==
    [S \in IdSets |->
        UNION { UNION { {Play(op, v, Pool(j)) :
                            op \in {op \in Operators : Playable(op, v, Pool(j))}}
                        : v \in prev[S \ {j}] }
                : j \in S }]

RECURSIVE GameReachUpTo(_)
GameReachUpTo(k) ==
    IF k = 1 THEN <<GameFirst>>
    ELSE LET t == GameReachUpTo(k - 1) IN Append(t, GameMore(t[k - 1]))

GameReach == GameReachUpTo(NumSteps)

\* <<k, v>>: some valid sequence of k executed steps ends in value v
GameEnds ==
    LET t == GameReach IN
    UNION { UNION { {<<k, v>> : v \in t[k][S]} : S \in IdSets } : k \in 1 .. NumSteps }

\* <<k, u, op>>: some valid sequence of k >= 2 executed steps has value u
\* before its last step and operator op on it
GameLastSteps ==
    LET t == GameReach IN
    UNION { UNION { UNION {
        {<<k, u, op>> : op \in {op \in Operators :
                \E j \in Steps \ S : Playable(op, u, Pool(j))}}
        : u \in t[k - 1][S] } : S \in IdSets } : k \in 2 .. NumSteps }

\* The attacks the adversary may play against operator op on value u, and
\* the worst distance they leave
LegalAttacks(op, u) == {a \in Attacks : Playable(op, u, a)}

Maximum(D) == CHOOSE x \in D : \A y \in D : x >= y

WorstCase(op, u) == Maximum({Abs(target - Play(op, u, a)) : a \in LegalAttacks(op, u)})

\* Read on the current model
usedCount == used_count(steps)
distance == Abs(target - vals[NumSteps - 1])
LastStep == usedCount - 1

-----------------------------------------------------------------------------
(* Properties *)

\* C1: for a pool of six numbers, the model CountingStrategy returns has a
\* distance no larger than that of any valid sequence, and when that
\* distance is 0 it executes no more steps than any valid sequence that
\* also reaches the target.
C1_SolveOptimal ==
    (pc = "solved" /\ SixPool) =>
        \A e \in GameEnds :
            /\ distance <= Abs(target - e[2])
            /\ (distance = 0 /\ Abs(target - e[2]) = 0) => usedCount <= e[1]

\* C1 happens: an exact solution that needs more than the initial number
C1_Witness ==
    /\ pc = "solved" /\ SixPool
    /\ distance = 0 /\ usedCount = 4

\* C2: for a pool of six numbers, the worst_dist CountingStrategyResilient
\* returns is the largest distance the legal attacks on its last executed
\* step leave, it is no larger than that of any valid sequence with step 1
\* executed, and when it is 0 the model executes no more steps than any
\* such sequence whose worst distance is also 0.
C2_ResilientOptimal ==
    (pc = "resilient" /\ SixPool) =>
        /\ worst_dist = WorstCase(ops[LastStep], vals[LastStep - 1])
        /\ \A e \in GameLastSteps :
            /\ worst_dist <= WorstCase(e[3], e[2])
            /\ (worst_dist = 0 /\ WorstCase(e[3], e[2]) = 0) => usedCount <= e[1]

\* C2 happens: a worst distance of 0 that needs three executed steps
C2_Witness ==
    /\ pc = "resilient" /\ SixPool
    /\ worst_dist = 0 /\ usedCount = 3

\* C3 as stated: every model CountingStrategyResilient returns has
\* worst_dist >= its own unattacked distance.
C3_WorstAtLeastDistance ==
    (pc = "resilient" /\ SixPool) => worst_dist >= distance

\* C3 amended: worst_dist >= the unattacked distance whenever the operand
\* of the last executed step is itself one of the attack values 1..10.
C3_WorstAtLeastDistanceOfAttackOperand ==
    (pc = "resilient" /\ SixPool /\ Pool(ids[LastStep]) \in Attacks) =>
        worst_dist >= distance

\* C3 amended happens: the last operand is an attack value and the
\* adversary does strictly worse than the unattacked outcome
C3_Witness ==
    /\ pc = "resilient" /\ SixPool
    /\ Pool(ids[LastStep]) \in Attacks
    /\ worst_dist > distance

\* The distance CountingStrategy returns on the inputs of this call
SolveDistance == LexMin({SolveObjective(e) : e \in SolveEnds(Reach)})[1]

\* C4 as stated: worst_dist returned by CountingStrategyResilient is >= the
\* distance CountingStrategy returns on the same inputs.
C4_ResilientNeverBetter ==
    (pc = "resilient" /\ SixPool) => worst_dist >= SolveDistance

\* C4 amended: worst_dist is >= the distance CountingStrategy returns on
\* the same inputs minus 1.
C4_ResilientBetterByAtMostOne ==
    (pc = "resilient" /\ SixPool) => worst_dist >= SolveDistance - 1

\* C4 amended happens: the resilient search is better by exactly 1
C4_Witness ==
    /\ pc = "resilient" /\ SixPool
    /\ SolveDistance > 0
    /\ worst_dist = SolveDistance - 1

\* C5: for a pool of six numbers that contains the target,
\* CountingStrategy returns distance 0 with only step 0 executed and
\* vals[5] = vals[0] = target.
C5_TargetInPool ==
    (pc = "solved" /\ SixPool /\ \E i \in Steps : Pool(i) = target) =>
        /\ distance = 0
        /\ usedCount = 1
        /\ steps[0] /\ \A k \in OpSteps : ~steps[k]
        /\ vals[NumSteps - 1] = vals[0] /\ vals[0] = target

\* C5 happens: the target is in the pool and is also reachable with more
\* than one executed step
C5_Witness ==
    /\ pc = "solved" /\ SixPool
    /\ \E i \in Steps : Pool(i) = target
    /\ \E e \in GameEnds : e[1] > 1 /\ e[2] = target

\* C6: in every returned model any two executed steps use different ids.
C6_DistinctOperands ==
    (pc # "call") =>
        \A i \in Steps : \A j \in Steps :
            (i < j /\ steps[i] /\ steps[j]) => ids[i] # ids[j]

\* C6 happens: a returned model that executes all six steps
C6_Witness ==
    /\ pc # "call"
    /\ \A i \in Steps : steps[i]

\* C7: in every returned model every executed division has a non-zero
\* operand and vals[k] is the exact quotient.
C7_ExactDivision ==
    (pc # "call") =>
        \A k \in OpSteps :
            (steps[k] /\ ops[k] = DivOp) =>
                /\ arr(ids[k]) # 0
                /\ vals[k] * arr(ids[k]) = vals[k - 1]

\* C7 happens: a returned model that executes a division
C7_Witness ==
    /\ pc # "call"
    /\ \E k \in OpSteps : steps[k] /\ ops[k] = DivOp /\ Abs(arr(ids[k])) > 1

\* C8: a call with a pool that does not have exactly six entries is
\* rejected: no model is produced from it.
C8_RejectsOtherPoolSizes ==
    (Len(numbers) # NumSteps) => pc = "call"

\* The executed prefix of k steps
PrefixSteps(k) == [i \in Steps |-> i < k]

\* C9: in every model of the resilient encoding exactly one k in 1..5 is
\* executed with k = 5 or step k + 1 not executed; last_op is that k, the
\* largest executed step index, and the attacks are played with ops[last_op]
\* on vals[last_op - 1].
C9_LastOp ==
    (pc = "resilient") =>
        /\ Cardinality({k \in OpSteps :
                steps[k] /\ (k = NumSteps - 1 \/ ~steps[k + 1])}) = 1
        /\ steps[last_op] /\ (last_op = NumSteps - 1 \/ ~steps[last_op + 1])
        /\ last_op = usedCount - 1
        /\ \A k \in Steps : steps[k] => k <= last_op
        /\ \A a \in Attacks :
              att_dists[a] =
                 IF Playable(ops[last_op], vals[last_op - 1], a)
                 THEN Abs(target - Play(ops[last_op], vals[last_op - 1], a))
                 ELSE Illegal
        /\ \A n \in 2 .. NumSteps : LastOps(PrefixSteps(n)) = {n - 1}

\* C9 happens: the last executed step is neither step 1 nor step 5
C9_Witness ==
    /\ pc = "resilient"
    /\ last_op > 1 /\ last_op < NumSteps - 1

\* C10: every model of the resilient encoding has a legal attack, so
\* worst_dist is the distance of a legal attack, >= 0 and never the -1 of
\* an illegal one, and the attack constraints exclude no sequence: every
\* call returns a model.
C10_SomeAttackLegal ==
    /\ (pc = "resilient") =>
          /\ \E a \in Attacks : att_dists[a] # Illegal /\ worst_dist = att_dists[a]
          /\ worst_dist >= 0
    /\ (pc = "call") =>
          /\ \A e \in ResilientEnds(Reach) :
                \E a \in Attacks : legal_attack(e[3], e[2], a)
          /\ ResilientModels # {}

\* C10 happens: a returned model in which some attack is illegal
C10_Witness ==
    /\ pc = "resilient"
    /\ \E a \in Attacks : att_dists[a] = Illegal

====
